---- MODULE Spec2Model ----
(***************************************************************************)
(* Model of backend/api.py: the POST /users pipeline of the Keycloak user  *)
(* API.  One behaviour is one request: pydantic validation, the admin      *)
(* token exchange, the user-creation call, the lookup on conflict, the     *)
(* optional password reset, and the HTTP response.  The identity service   *)
(* is external: each of its responses is a nondeterministic choice.        *)
(*                                                                         *)
(* Python values: an Optional value is a sequence of length at most one,   *)
(* None is <<>> and the value v is <<v>>.  A header or URL text is a       *)
(* sequence of tokens, "/" being the separator, and "" is <<>>.            *)
(***************************************************************************)
EXTENDS Integers, Sequences, FiniteSets, TLC

VARIABLES pc, u, token, payload, user_id, calls, exc, response

vars == <<pc, u, token, payload, user_id, calls, exc, response>>

\* ------------------------------------------------------------------ bounds
\* longest Location header value, in tokens
MaxLocLen == 3
\* longest array the username lookup returns
MaxLookupLen == 2

\* ------------------------------------------------------------ Python values
None == <<>>

Some(v) == <<v>>

\* `v is not None`
IsNotNone(v) == v # None

\* truthiness of an Optional[str] that treats only None as false
TruthyNotNone(v) == v # None

\* truthiness of an Optional[str]: None and "" are false (`if u.password:`,
\* `if not password:`)
Truthy(v) == v # None /\ v # Some("")

\* f-string interpolation of an Optional[str]: None prints as "None"
Fmt(v) == IF v = None THEN "None" ELSE v[1]

\* ------------------------------------------------------------ configuration
KEYCLOAK_REALM == "master"

\* ------------------------------------------------------------ request bodies
Usernames == {None, Some(""), Some("alice")}

ValidEmails == {"a@x.org"}

Emails == {None, Some("a@x.org"), Some("not-an-email")}

FirstNames == {None, Some(""), Some("Al")}

LastNames == {None, Some("Ice")}

Passwords == {None, Some(""), Some("s3cret")}

\* the JSON body of POST /users; a field that is missing or null is None
Bodies == [username : Usernames, email : Emails, firstName : FirstNames,
           lastName : LastNames, password : Passwords,
           enabled : BOOLEAN, emailVerified : BOOLEAN]

\* UserCreate: username is a required str, email an Optional[EmailStr]
UserCreate(b) == /\ b.username # None
                 /\ b.email # None => b.email[1] \in ValidEmails

\* ------------------------------------------------------- upstream responses
\* 0 stands for "no response": requests raised (timeout, connection error)
NoResponse == 0

HttpStatus == {200, 201, 204, 401, 409, 500}

Outcomes == HttpStatus \cup {NoResponse}

Tokens == {None, Some("tok")}

LocTokens == {"/", "users", "abc-123"}

RECURSIVE SeqsUpTo(_, _)
SeqsUpTo(S, n) == IF n = 0 THEN {<<>>}
                  ELSE LET R == SeqsUpTo(S, n - 1)
                       IN  R \cup {Append(s, x) : s \in {r \in R : Len(r) = n - 1}, x \in S}

\* header texts: separators and path segments, no two segments adjacent
Locations == {s \in SeqsUpTo(LocTokens, MaxLocLen) :
                \A i \in 1..(Len(s) - 1) : s[i] = "/" \/ s[i + 1] = "/"}

\* the Location header of a 201 response: missing, or a text
LocationHeaders == {None} \cup {Some(l) : l \in Locations}

UserIds == {None, Some("abc-123"), Some("def-456")}

\* the JSON array of the lookup; an element is a user with an optional id
LookupBodies == SeqsUpTo([id : UserIds], MaxLookupLen)

\* -------------------------------------------------------- string functions
\* str.rstrip("/")
RECURSIVE RStrip(_)
RStrip(s) == IF s # <<>> /\ s[Len(s)] = "/" THEN RStrip(SubSeq(s, 1, Len(s) - 1))
             ELSE s

\* str.split("/"): the segments between separators, "" for an empty one
RECURSIVE Split(_)
Split(s) == IF s = <<>> THEN <<"">>
            ELSE IF Head(s) = "/" THEN <<"">> \o Split(Tail(s))
            ELSE LET r == Split(Tail(s)) IN <<Head(s)>> \o Tail(r)

\* the first element of the split, a plausible slip for [-1]
FirstSegment(location) ==
    IF location # <<>> THEN Split(RStrip(location))[1] ELSE ""

\* location.rstrip("/").split("/")[-1] if location else ""
LastSegment(location) ==
    IF location # <<>>
    THEN LET p == Split(RStrip(location)) IN p[Len(p)]
    ELSE ""

\* resp.headers.get("Location", "")
HeaderGet(h) == IF h = None THEN <<>> ELSE h[1]

\* ------------------------------------------------------------------- errors
HTTPException(code, detail) == Some([status_code |-> code, detail |-> detail])

\* ---------------------------------------------------------------- the model
Init == /\ pc = "validate"
        /\ u \in Bodies
        /\ token = None
        /\ payload = None
        /\ user_id = None
        /\ calls = <<>>
        /\ exc = None
        /\ response = None

\* FastAPI parses the body into UserCreate before create_user runs
Validate ==
    /\ pc = "validate"
    /\ IF UserCreate(u)
       THEN pc' = "get_admin_token" /\ exc' = exc
       ELSE pc' = "raised" /\ exc' = HTTPException(422, "validation error")
    /\ UNCHANGED <<u, token, payload, user_id, calls, response>>

\* the creation payload with every key, unset fields as explicit nulls
PayloadWithNulls(b) ==
    [username |-> b.username, email |-> b.email, firstName |-> b.firstName,
     lastName |-> b.lastName, enabled |-> Some(b.enabled),
     emailVerified |-> Some(b.emailVerified)]

\* the creation payload: the six fields of the request, None values removed
Payload(b) ==
    LET d == [username |-> b.username, email |-> b.email,
              firstName |-> b.firstName, lastName |-> b.lastName,
              enabled |-> Some(b.enabled),
              emailVerified |-> Some(b.emailVerified)]
    IN  [k \in {j \in DOMAIN d : IsNotNone(d[j])} |-> d[k][1]]

\* an exception that is not an HTTPException: FastAPI answers 500
Unhandled == Some([status_code |-> 500, detail |-> "Internal Server Error"])

\* any 2xx status taken as success, as `resp.ok` would
TokenOk2xx(st) == st \in 200..299

\* get_admin_token accepts the status 200 only
TokenOk(st) == st = 200

\* any 2xx status taken as "created"
Created2xx(st) == st \in 200..299

\* create_keycloak_user: the user was created
Created(st) == st = 201

\* every client or server error taken as a conflict
IsConflictAnyError(st) == st >= 400

\* create_keycloak_user: the user exists
IsConflict(st) == st = 409

\* the id of the last element of the lookup array
LookupIdLast(body) == body[Len(body)].id

\* r.json()[0].get("id")
LookupId(body) == body[1].id

\* the error of the final raise of create_keycloak_user
ConflictErrorAsUpstream == HTTPException(502, "Failed to create user in Keycloak")

\* the error raised when the lookup finds nothing
ConflictError == HTTPException(409, "User already exists")

\* any 2xx status taken as success
PasswordOk2xx(st) == st \in 200..299

\* set_user_password accepts the status 204 only
PasswordOk(st) == st \in {204}

\* get_admin_token: the credential exchange, once per request
GetAdminToken ==
    /\ pc = "get_admin_token"
    /\ \E st \in Outcomes, tok \in Tokens :
         /\ calls' = Append(calls, [op |-> "token", status |-> st,
                                    access_token |-> IF st = NoResponse THEN None ELSE tok])
         /\ IF st = NoResponse
            THEN pc' = "raised" /\ exc' = Unhandled /\ token' = token
            ELSE IF ~TokenOk(st)
            THEN /\ pc' = "raised"
                 /\ exc' = HTTPException(502, "Failed to obtain Keycloak admin token")
                 /\ token' = token
            ELSE IF tok = None
            THEN pc' = "raised" /\ exc' = Unhandled /\ token' = token
            ELSE pc' = "create_keycloak_user" /\ exc' = exc /\ token' = tok
    /\ UNCHANGED <<u, payload, user_id, response>>

\* where create_user goes once it holds the user id
AfterCreate == IF Truthy(u.password) THEN "set_user_password" ELSE "return"

\* create_user builds the payload; create_keycloak_user posts it
CreateKeycloakUser ==
    /\ pc = "create_keycloak_user"
    /\ payload' = Payload(u)
    /\ \E st \in Outcomes, h \in LocationHeaders :
         /\ st # 201 => h = None
         /\ calls' = Append(calls, [op |-> "create", realm |-> KEYCLOAK_REALM,
                                    bearer |-> Fmt(token), json |-> payload',
                                    status |-> st, location |-> h])
         /\ IF st = NoResponse
            THEN pc' = "raised" /\ exc' = Unhandled /\ user_id' = user_id
            ELSE IF Created(st)
            THEN /\ user_id' = Some(LastSegment(HeaderGet(h)))
                 /\ pc' = AfterCreate
                 /\ exc' = exc
            ELSE IF IsConflict(st)
            THEN pc' = "lookup" /\ exc' = exc /\ user_id' = user_id
            ELSE /\ pc' = "raised"
                 /\ exc' = HTTPException(502, "Failed to create user in Keycloak")
                 /\ user_id' = user_id
    /\ UNCHANGED <<u, token, response>>

\* the 409 branch of create_keycloak_user: search the user by username
LookupUser ==
    /\ pc = "lookup"
    /\ \E st \in Outcomes, body \in LookupBodies :
         /\ st # 200 => body = <<>>
         /\ calls' = Append(calls, [op |-> "lookup", realm |-> KEYCLOAK_REALM,
                                    bearer |-> Fmt(token),
                                    params |-> [username |-> payload.username],
                                    status |-> st, body |-> body])
         /\ IF st = NoResponse
            THEN pc' = "raised" /\ exc' = Unhandled /\ user_id' = user_id
            ELSE IF st = 200 /\ body # <<>>
            THEN user_id' = LookupId(body) /\ pc' = AfterCreate /\ exc' = exc
            ELSE /\ pc' = "raised"
                 /\ exc' = ConflictError
                 /\ user_id' = user_id
    /\ UNCHANGED <<u, token, payload, response>>

\* set_user_password(token, realm, user_id, u.password, temporary=False)
SetUserPassword ==
    /\ pc = "set_user_password"
    /\ IF ~Truthy(u.password)
       THEN pc' = "return" /\ UNCHANGED <<calls, exc>>
       ELSE \E st \in Outcomes :
              /\ calls' = Append(calls,
                     [op |-> "reset", realm |-> KEYCLOAK_REALM,
                      bearer |-> Fmt(token), user |-> Fmt(user_id),
                      json |-> [type |-> "password", value |-> u.password[1],
                                temporary |-> FALSE],
                      status |-> st])
              /\ IF st = NoResponse
                 THEN pc' = "raised" /\ exc' = Unhandled
                 ELSE IF ~PasswordOk(st)
                 THEN /\ pc' = "raised"
                      /\ exc' = HTTPException(502, "Failed to set user password")
                 ELSE pc' = "return" /\ exc' = exc
    /\ UNCHANGED <<u, token, payload, user_id, response>>

\* return {"id": user_id, "username": u.username} with status 201
Respond ==
    /\ pc = "return"
    /\ response' = Some([status |-> 201,
                         body |-> [id |-> user_id, username |-> u.username[1]]])
    /\ pc' = "done"
    /\ UNCHANGED <<u, token, payload, user_id, calls, exc>>

\* an exception leaves create_user: the response carries its status
HandleException ==
    /\ pc = "raised"
    /\ response' = Some([status |-> exc[1].status_code,
                         body |-> [detail |-> exc[1].detail]])
    /\ pc' = "done"
    /\ UNCHANGED <<u, token, payload, user_id, calls, exc>>

Next == \/ Validate
        \/ GetAdminToken
        \/ CreateKeycloakUser
        \/ LookupUser
        \/ SetUserPassword
        \/ Respond
        \/ HandleException

Spec == Init /\ [][Next]_vars

\* ------------------------------------------------------------- observations
Done == pc = "done"

Status == response[1].status

Issued(op) == \E i \in DOMAIN calls : calls[i].op = op

CallOf(op) == calls[CHOOSE i \in DOMAIN calls : calls[i].op = op]

Ended == pc \in {"raised", "done"}

\* the creation call was answered 409 and the lookup 200 with a user
ConflictResolved ==
    /\ Issued("create") /\ CallOf("create").status = 409
    /\ Issued("lookup") /\ CallOf("lookup").status = 200
    /\ CallOf("lookup").body # <<>>

\* the creation call was answered 409 and the lookup gave no user
ConflictUnresolved ==
    /\ Issued("create") /\ CallOf("create").status = 409
    /\ Issued("lookup") /\ CallOf("lookup").status \in HttpStatus
    /\ CallOf("lookup").status # 200 \/ CallOf("lookup").body = <<>>

\* the last token of a header text that is not a trailing separator, "" if none
TailSegment(h) ==
    LET l == IF h = None THEN <<>> ELSE h[1]
        n == IF \E i \in DOMAIN l : l[i] # "/"
             THEN CHOOSE i \in DOMAIN l :
                      l[i] # "/" /\ \A j \in (i + 1)..Len(l) : l[j] = "/"
             ELSE 0
    IN  IF n = 0 THEN "" ELSE l[n]

\* the identifier the identity service gave: from Location, or from the lookup
ObtainedId ==
    IF CallOf("create").status = 201
    THEN Some(TailSegment(CallOf("create").location))
    ELSE CallOf("lookup").body[1].id

\* the answer to the last outbound call is not the success of its stage
LastCallFailed ==
    /\ calls # <<>>
    /\ LET c == calls[Len(calls)]
       IN  \/ c.op = "token" /\ (c.status # 200 \/ c.access_token = None)
           \/ c.op = "create" /\ c.status \notin {201, 409}
           \/ c.op = "lookup" /\ (c.status # 200 \/ c.body = <<>>)
           \/ c.op = "reset" /\ c.status # 204

StageFailed == exc # None \/ LastCallFailed

Rank(op) == CASE op = "token" -> 1 [] op = "create" -> 2
              [] op = "lookup" -> 3 [] op = "reset" -> 4

\* ------------------------------------------------------------------- claims

\* C1: when the token exchange is answered with a status other than 200, the
\* request fails with 502 and the token call stays the only outbound call.
C1_TokenFailureStopsPipeline ==
    (calls # <<>> /\ calls[1].status \in HttpStatus \ {200}) =>
        /\ Len(calls) = 1 /\ calls[1].op = "token"
        /\ Ended
        /\ exc[1].status_code = 502
        /\ Done => Status = 502

C1_Witness ==
    /\ Done /\ Len(calls) = 1 /\ calls[1].op = "token"
    /\ calls[1].status = 401 /\ Status = 502

\* C2 as stated: creation answered 409 and lookup answered 200 with a
\* non-empty array make the request end without error, with the id of the
\* first element of the array.
C2_ConflictResolvedAlwaysSucceeds ==
    (Done /\ ConflictResolved) =>
        /\ Status = 201
        /\ response[1].body.id = CallOf("lookup").body[1].id

\* C2 amended: the same, provided the password-reset call, when one is issued,
\* is answered 204.
C2_ConflictResolvedSucceeds ==
    (Done /\ ConflictResolved
          /\ (Issued("reset") => CallOf("reset").status = 204)) =>
        /\ Status = 201
        /\ response[1].body.id = CallOf("lookup").body[1].id

C2_Witness ==
    /\ Done /\ ConflictResolved /\ Status = 201
    /\ Len(CallOf("lookup").body) = 2
    /\ CallOf("lookup").body[1].id = Some("abc-123")
    /\ CallOf("lookup").body[2].id = Some("def-456")
    /\ response[1].body.id = Some("abc-123")
    /\ Issued("reset")

\* C3: creation answered 409 and an inconclusive lookup (empty array, or a
\* status other than 200) make the request fail with 409, never 502, and no
\* password-reset call is issued.
C3_ConflictUnresolvedIs409 ==
    ConflictUnresolved =>
        /\ Ended
        /\ exc[1].status_code = 409
        /\ Done => Status = 409
        /\ ~Issued("reset")

C3_Witness ==
    /\ Done /\ ConflictUnresolved /\ Status = 409
    /\ CallOf("lookup").status = 200 /\ CallOf("lookup").body = <<>>
    /\ Truthy(u.password)

\* C4: a request without a password (None or "") never issues a
\* password-reset call.
C4_NoPasswordNoReset ==
    ~(u.password # None /\ u.password # Some("")) => ~Issued("reset")

C4_Witness ==
    /\ Done /\ Status = 201 /\ u.password = Some("") /\ ConflictResolved
    /\ ~Issued("reset")

\* C5: in a successful request with a password the id of the response is the
\* one obtained from the creation call (last segment of Location) or from the
\* lookup, it is the one put in the password-reset URL, and it is fixed before
\* the password-reset call is answered.
C5_IdFromCreationOrLookup ==
    /\ (pc \in {"set_user_password", "return"}) => user_id = ObtainedId
    /\ (Done /\ Status = 201 /\ Issued("reset")) =>
          /\ response[1].body.id = ObtainedId
          /\ CallOf("reset").user = Fmt(response[1].body.id)

C5_Witness ==
    /\ Done /\ Status = 201 /\ Issued("reset")
    /\ CallOf("create").status = 201
    /\ CallOf("create").location = Some(<<"users", "/", "abc-123">>)
    /\ response[1].body.id = Some("abc-123")
    /\ CallOf("reset").user = "abc-123"

\* C6: the creation payload has the key of an optional field (email,
\* firstName, lastName) exactly when the request gave the field; username,
\* enabled and emailVerified are always there and password never is.
C6_PayloadKeys ==
    Issued("create") =>
        LET keys == DOMAIN CallOf("create").json
        IN  /\ \A f \in {"email", "firstName", "lastName"} :
                  f \in keys <=> u[f] # None
            /\ {"username", "enabled", "emailVerified"} \subseteq keys
            /\ "password" \notin keys

C6_Witness ==
    /\ Issued("create")
    /\ u.email = None /\ u.firstName = Some("") /\ u.password = Some("s3cret")
    /\ ~u.enabled
    /\ DOMAIN CallOf("create").json =
          {"username", "firstName", "lastName", "enabled", "emailVerified"}

\* C7 as stated: the id of a 201 response is a non-empty identifier, taken
\* from the Location header of the creation response or from the user found
\* by the lookup.
C7_ResponseIdIsAssignedId ==
    (Done /\ Status = 201) =>
        /\ response[1].body.id = ObtainedId
        /\ response[1].body.id \notin {None, Some("")}

\* C8: a creation response other than 201 and 409 fails the request with 502
\* and no lookup or password-reset call follows; a password-reset response
\* other than 204 fails the request with 502.
C8_UpstreamErrorIs502 ==
    /\ (Issued("create") /\ CallOf("create").status \in HttpStatus \ {201, 409}) =>
          /\ Ended /\ exc[1].status_code = 502
          /\ Done => Status = 502
          /\ ~Issued("lookup") /\ ~Issued("reset")
    /\ (Issued("reset") /\ CallOf("reset").status \in HttpStatus \ {204}) =>
          /\ Ended /\ exc[1].status_code = 502
          /\ Done => Status = 502

C8_Witness ==
    /\ Done /\ Status = 502
    /\ Issued("reset") /\ CallOf("reset").status = 200
    /\ CallOf("create").status = 201

\* C9: the outbound calls of a request come in the order token, creation,
\* lookup, password reset, each at most once (at most 4 calls), and the lookup
\* comes only right after a creation answered 409.
C9_CallOrder ==
    /\ Len(calls) <= 4
    /\ \A i, j \in DOMAIN calls : i < j => Rank(calls[i].op) < Rank(calls[j].op)
    /\ \A i \in DOMAIN calls :
          calls[i].op = "lookup" =>
              i > 1 /\ calls[i - 1].op = "create" /\ calls[i - 1].status = 409

C9_Witness ==
    /\ Len(calls) = 4
    /\ calls[1].op = "token" /\ calls[2].op = "create"
    /\ calls[3].op = "lookup" /\ calls[4].op = "reset"

\* C10: once a stage has failed the request issues no further outbound call
\* and ends with an error response; no call follows a failed password reset,
\* so a user created before it stays created.
C10_FailureIsTerminal ==
    [][StageFailed => /\ calls' = calls
                      /\ pc' = "done"
                      /\ response'[1].status >= 400]_vars

C10_Witness ==
    /\ Done /\ Status = 502 /\ Len(calls) = 3
    /\ calls[2].op = "create" /\ calls[2].status = 201
    /\ calls[3].op = "reset" /\ calls[3].status = 500
====
